---- MODULE Spec2Model ----
(***************************************************************************)
(* A model of remixt/analysis/pipeline.py: candidate generation (init),    *)
(* the per-candidate fit and its derived statistics (fit), and the         *)
(* collation and selection of the best solution (collate,                  *)
(* store_fit_results, store_optimal_solution).                             *)
(*                                                                         *)
(* Real numbers are exact rationals <<numerator, denominator>> with a      *)
(* positive denominator.  Candidate ids, clones and alleles are numbered   *)
(* from 0 as in the source; segments are numbered from 1.                  *)
(***************************************************************************)
EXTENDS Integers, Sequences, FiniteSets, TLC

VARIABLES
    init_args,      \* init: the configuration and the candidate modes it is called with
    init_result,    \* init: what the call produced (a mapping, or an exception)
    experiment,     \* the pickled Experiment file shared by every fit run
    candidates,     \* candidate id -> the init_params tuple handed to that candidate's fit
    oracle,         \* candidate id -> what BreakpointModel.optimize does on that candidate's inputs
    pc,             \* candidate id -> position of that candidate's fit run
    exp_local,      \* candidate id -> the Experiment that run unpickled
    model,          \* model instance -> state of the BreakpointModel after optimize
    files,          \* candidate id -> contents of its results file (NoFile when absent)
    stats_table,    \* collate: the statistics table, in enumeration order
    collated,       \* collate: the collated store
    outcome         \* collate / store_optimal_solution: how the call ended

vars == <<init_args, init_result, experiment, candidates, oracle, pc, exp_local,
          model, files, stats_table, collated, outcome>>

----------------------------------------------------------------------------
(* Bounds of the model. *)

MaxModes == 2       \* candidate modes handed to init
MaxPloidy == 3      \* estimated ploidies and ploidy limits range over 1..MaxPloidy
MaxMix == 2         \* length of tumour_mix_fractions
MaxVar == 1         \* length of prior_variances
MaxCN == 2          \* copy number of one allele of one clone of one segment
MaxCand == 2        \* candidates fitted and collated
MaxElbo == 2        \* ELBO values range over 1..MaxElbo

(* h_init has one entry for the normal clone and two tumour clones. *)
NumClones == 3

Clones == 0 .. NumClones - 1
TumourClones == 1 .. NumClones - 1
Alleles == 0 .. 1

(* An optional value is a sequence of length at most one: None is Python's None, *)
(* an absent file or an absent store entry.                                        *)
None == <<>>
Some(v) == <<v>>
Unused == <<>>

(* A non-finite float (inf or nan), kept apart from every finite value. *)
NonFinite == 0 - 1
IsFinite(v) == v >= 0

----------------------------------------------------------------------------
(* Exact rational arithmetic. *)

RatOf(n) == <<n, 1>>
RatAdd(p, q) == <<p[1] * q[2] + q[1] * p[2], p[2] * q[2]>>
RatMul(p, q) == <<p[1] * q[1], p[2] * q[2]>>
RatDiv(p, q) == <<p[1] * q[2], p[2] * q[1]>>
RatEq(p, q) == p[1] * q[2] = q[1] * p[2]
RatLt(p, q) == p[1] * q[2] < q[1] * p[2]
RatLe(p, q) == p[1] * q[2] <= q[1] * p[2]

RECURSIVE SumTo(_, _)
(* f[1] + ... + f[n] for integers. *)
SumTo(f, n) == IF n = 0 THEN 0 ELSE SumTo(f, n - 1) + f[n]

RECURSIVE RatSumTo(_, _)
(* f[1] + ... + f[n] for rationals. *)
RatSumTo(f, n) == IF n = 0 THEN RatOf(0) ELSE RatAdd(RatSumTo(f, n - 1), f[n])

RECURSIVE SeqsUpTo(_, _)
(* Every sequence over S of length at most n. *)
SeqsUpTo(S, n) ==
    IF n = 0 THEN {<<>>}
    ELSE LET shorter == SeqsUpTo(S, n - 1)
         IN  shorter \cup {Append(s, x) : s \in {t \in shorter : Len(t) = n - 1}, x \in S}

----------------------------------------------------------------------------
(* init: candidate generation.                                             *)

(* calculate_candidate_h_monoclonal: the k-th candidate pair (h_normal, h_tumour); *)
(* the pairs are distinct modes of the minor allele depth.                         *)
HMono(k) == <<k, k + MaxModes>>

(* for mix_frac in tumour_mix_fractions: one parameter record per mix fraction. *)
MixParams(mode_idx, h_mono, tumour_mix_fractions) ==
    [j \in 1 .. Len(tumour_mix_fractions) |->
        [mode_idx |-> mode_idx,
         h_normal |-> h_mono[1],
         h_tumour |-> h_mono[2],
         mix_frac |-> tumour_mix_fractions[j]]]

(* A range test that also skips a mode sitting exactly on the lower bound. *)
BelowMinInclusive(estimated_ploidy, min_ploidy) ==
    min_ploidy # None /\ estimated_ploidy <= min_ploidy[1]

(* The two range tests of the loop body: TRUE when the mode is skipped. *)
BelowMin(estimated_ploidy, min_ploidy) ==
    min_ploidy # None /\ estimated_ploidy < min_ploidy[1]

AboveMax(estimated_ploidy, max_ploidy) ==
    max_ploidy # None /\ estimated_ploidy > max_ploidy[1]

RECURSIVE ModeLoop(_, _)
(* The loop over enumerate(init_h_mono), after its first k iterations. *)
ModeLoop(a, k) ==
    IF k = 0
    THEN [asserted |-> FALSE, init_h_params |-> <<>>, ploidy_estimates |-> <<>>]
    ELSE LET prev == ModeLoop(a, k - 1)
             estimated_ploidy == a.estimated_ploidy[k]
             seen == Append(prev.ploidy_estimates, estimated_ploidy)
         IN  IF prev.asserted THEN prev
             ELSE IF ~IsFinite(estimated_ploidy) THEN [prev EXCEPT !.asserted = TRUE]
             ELSE IF BelowMin(estimated_ploidy, a.min_ploidy)
                  THEN [prev EXCEPT !.ploidy_estimates = seen]
             ELSE IF AboveMax(estimated_ploidy, a.max_ploidy)
                  THEN [prev EXCEPT !.ploidy_estimates = seen]
             ELSE [prev EXCEPT
                      !.ploidy_estimates = seen,
                      !.init_h_params = prev.init_h_params \o
                          MixParams(k - 1, a.init_h_mono[k], a.tumour_mix_fractions)]

(* itertools.product(init_h_params, prior_variance_params), each pair merged. *)
Product(init_h_params, prior_variances) ==
    [t \in 1 .. Len(init_h_params) * Len(prior_variances) |->
        LET h_p == init_h_params[((t - 1) \div Len(prior_variances)) + 1]
            w == prior_variances[((t - 1) % Len(prior_variances)) + 1]
        IN  [mode_idx |-> h_p.mode_idx,
             h_normal |-> h_p.h_normal,
             h_tumour |-> h_p.h_tumour,
             mix_frac |-> h_p.mix_frac,
             prior_variance |-> w]]

(* dict(enumerate(init_params)) *)
Enumerate(init_params) == [id \in 0 .. Len(init_params) - 1 |-> init_params[id + 1]]

(* init as a whole: what it raises ("" when it returns), the message of the   *)
(* exception, the mapping it returns and whether the init results were stored. *)
init(a) ==
    LET loop == ModeLoop(a, Len(a.init_h_mono))
    IN  IF loop.asserted
        THEN [raised |-> "AssertionError", message |-> None,
              value |-> <<>>, stored |-> FALSE]
        ELSE IF Len(loop.init_h_params) = 0
        THEN [raised |-> "Exception",
              message |-> Some([text |-> "no valid ploidy estimates in range",
                                min_ploidy |-> a.min_ploidy,
                                max_ploidy |-> a.max_ploidy,
                                candidates |-> loop.ploidy_estimates]),
              value |-> <<>>, stored |-> FALSE]
        ELSE [raised |-> "", message |-> None,
              value |-> Enumerate(Product(loop.init_h_params, a.prior_variances)),
              stored |-> TRUE]

Pending == [raised |-> "pending", message |-> None, value |-> <<>>, stored |-> FALSE]

(* Values a configured list may hold (mix fractions in tenths, prior variances). *)
GridValues == {1, 2}
PloidyValues == (1 .. MaxPloidy) \cup {NonFinite}
PloidyLimits == {None} \cup {Some(v) : v \in 1 .. MaxPloidy}

(* The arguments of one call of init. *)
InitArgs(est, lo, hi, mix, pv) ==
    [init_h_mono |-> [k \in 1 .. Len(est) |-> HMono(k)],
     estimated_ploidy |-> est,
     min_ploidy |-> lo,
     max_ploidy |-> hi,
     tumour_mix_fractions |-> mix,
     prior_variances |-> pv]

IdleFit ==
    /\ experiment = Unused /\ candidates = <<>> /\ oracle = <<>> /\ pc = <<>>
    /\ exp_local = <<>> /\ model = <<>> /\ files = <<>>

(* A table without rows or columns, and a store without entries. *)
NoFrame == [columns |-> {}, rows |-> <<>>]
EmptyStore == <<>>

IdleCollate == stats_table = NoFrame /\ collated = EmptyStore /\ outcome = "unused"

InitCandidates ==
    /\ \E est \in SeqsUpTo(PloidyValues, MaxModes), lo \in PloidyLimits, hi \in PloidyLimits,
          mix \in SeqsUpTo(GridValues, MaxMix), pv \in SeqsUpTo(GridValues, MaxVar) :
            init_args = InitArgs(est, lo, hi, mix, pv)
    /\ init_result = Pending
    /\ IdleFit
    /\ IdleCollate

RunInit ==
    /\ init_result = Pending
    /\ init_result' = init(init_args)
    /\ UNCHANGED <<init_args, experiment, candidates, oracle, pc, exp_local,
                   model, files, stats_table, collated, outcome>>

NextCandidates == RunInit

SpecCandidates == InitCandidates /\ [][NextCandidates]_vars

(* The estimated ploidy p lies inside the configured range. *)
InRange(p, a) ==
    /\ a.min_ploidy = None \/ a.min_ploidy[1] <= p
    /\ a.max_ploidy = None \/ p <= a.max_ploidy[1]

(* The modes (numbered from 1) whose estimated ploidy lies inside the range. *)
Survivors(a) == {k \in 1 .. Len(a.estimated_ploidy) : InRange(a.estimated_ploidy[k], a)}

AllFinite(a) == \A k \in 1 .. Len(a.estimated_ploidy) : IsFinite(a.estimated_ploidy[k])

(* C4: with finite ploidy estimates, init fails with the "no valid ploidy     *)
(* estimates" exception exactly when no candidate mode has its estimated     *)
(* ploidy inside the configured range, never for another reason, and the     *)
(* exception then reports the ploidy estimate of every mode considered.      *)
C4_NoViableCandidateExactly ==
    (init_result # Pending /\ AllFinite(init_args)) =>
        /\ (init_result.raised = "Exception") <=> (Survivors(init_args) = {})
        /\ init_result.raised = "Exception" =>
               init_result.message[1].candidates = init_args.estimated_ploidy

----------------------------------------------------------------------------
(* fit: one model fit per candidate and its derived statistics.            *)

(* The Experiment: segment lengths l and one read-count triple x per segment. *)
Experiment(l) == [l |-> l, x |-> [n \in 1 .. Len(l) |-> <<0, 0, 0>>]]

(* A copy-number table cn[n][k][a]: the tumour clones' entries tum over the *)
(* segments, and clone 0 holding c0 on both alleles of every segment.       *)
CnTable(tum, c0) ==
    [n \in DOMAIN tum |->
        [k \in Clones |-> IF k = 0 THEN [a \in Alleles |-> c0] ELSE tum[n][k]]]

(* h_init: the normal depth and the tumour depth split by mix_frac, which is *)
(* held in tenths.                                                           *)
h_init_of(params) ==
    <<RatOf(params.h_normal),
      <<params.h_tumour * params.mix_frac, 10>>,
      <<params.h_tumour * (10 - params.mix_frac), 10>>>>

(* BreakpointModel(...) followed by optimize(h_init): the state the model   *)
(* instance holds afterwards, for the result out the optimizer reaches on   *)
(* these inputs.                                                            *)
Optimize(out, h_init, prior_variance) ==
    [h |-> h_init, phi |-> "phi", a |-> "a", cn |-> out.cn, brk_cn |-> "brk_cn",
     elbo |-> out.elbo, prev_elbo_diff |-> 0, converged |-> out.converged,
     num_iter |-> 1, prior_variance |-> prior_variance]

(* fit_remixt_variational after optimize returned: the results dictionary. *)
fit_remixt_variational(m) ==
    [h |-> m.h, phi |-> m.phi, a |-> m.a, cn |-> m.cn, brk_cn |-> m.brk_cn,
     stats |-> [elbo |-> m.elbo, elbo_diff |-> m.prev_elbo_diff,
                converged |-> m.converged, num_iter |-> m.num_iter,
                error_message |-> ""]]

RECURSIVE SumClones(_, _, _)
(* cn_n[1][a] + ... + cn_n[k][a]: one segment's copies of allele a over clones 1..k. *)
SumClones(cn_n, a, k) == IF k = 0 THEN 0 ELSE SumClones(cn_n, a, k - 1) + cn_n[k][a]

(* cn[:,1:,:].mean(axis=1)[n, a] including clone 0 as well. *)
MeanAllClones(cn_n, a) == <<cn_n[0][a] + SumClones(cn_n, a, NumClones - 1), NumClones>>

(* cn[:,1:,:].mean(axis=1)[n, a] *)
MeanTumour(cn_n, a) == <<SumClones(cn_n, a, NumClones - 1), NumClones - 1>>

(* The entries of a segments x alleles array, flattened: entry t belongs to *)
(* segment ((t - 1) \div 2) + 1 and allele (t - 1) % 2.                     *)
SegOf(t) == ((t - 1) \div 2) + 1
AlleleOf(t) == (t - 1) % 2

(* ploidy = (cn[:,1:,:].mean(axis=1).T * experiment.l).sum() / experiment.l.sum() *)
ploidy(cn, l) ==
    LET weighted == [t \in 1 .. 2 * Len(l) |->
                        RatMul(MeanTumour(cn[SegOf(t)], AlleleOf(t)), RatOf(l[SegOf(t)]))]
    IN  RatDiv(RatSumTo(weighted, 2 * Len(l)), RatOf(SumTo(l, Len(l))))

MaxOf(S) == CHOOSE x \in S : \A y \in S : y <= x
MinOf(S) == CHOOSE x \in S : \A y \in S : x <= y

(* The divergence indicator taken over every clone, clone 0 included. *)
DivergentAllClones(cn_n, a) ==
    LET copies == {cn_n[k][a] : k \in Clones}
    IN  IF MaxOf(copies) # MinOf(copies) THEN 1 ELSE 0

(* divergent = (cn[:,1:,:].max(axis=1) != cn[:,1:,:].min(axis=1)) * 1. *)
divergent(cn_n, a) ==
    LET copies == {cn_n[k][a] : k \in TumourClones}
    IN  IF MaxOf(copies) # MinOf(copies) THEN 1 ELSE 0

(* proportion_divergent = (divergent.T * experiment.l).sum() / (2. * experiment.l.sum()) *)
proportion_divergent(cn, l) ==
    LET weighted == [t \in 1 .. 2 * Len(l) |->
                        divergent(cn[SegOf(t)], AlleleOf(t)) * l[SegOf(t)]]
    IN  RatDiv(RatOf(SumTo(weighted, 2 * Len(l))), RatOf(2 * SumTo(l, Len(l))))

(* fit after fit_remixt_variational returned: the statistics added to the  *)
(* results, which are then pickled.                                        *)
fit_results_of(results, exp, params) ==
    [results EXCEPT !.stats =
        [elbo |-> results.stats.elbo,
         elbo_diff |-> results.stats.elbo_diff,
         converged |-> results.stats.converged,
         num_iter |-> results.stats.num_iter,
         error_message |-> results.stats.error_message,
         num_clones |-> Len(results.h),
         num_segments |-> Len(exp.x),
         ploidy |-> ploidy(results.cn, exp.l),
         proportion_divergent |-> proportion_divergent(results.cn, exp.l),
         mode_idx |-> params.mode_idx,
         prior_variance |-> params.prior_variance]]

(* Each call of fit_remixt_variational builds a model instance of its own, *)
(* and each fit is given a results file of its own.                        *)
SharedModel(id) == 0
ModelOf(id) == id
ResultsFile(id) == id

(* with open(experiment_filename) as f: experiment = pickle.load(f) *)
FitLoad(id) ==
    /\ pc[id] = "start"
    /\ exp_local' = [exp_local EXCEPT ![id] = experiment]
    /\ pc' = [pc EXCEPT ![id] = "loaded"]
    /\ UNCHANGED <<init_args, init_result, experiment, candidates, oracle, model,
                   files, stats_table, collated, outcome>>

(* h_init and the call of fit_remixt_variational up to the return of       *)
(* optimize, whose exception leaves fit at once.                           *)
FitOptimize(id) ==
    /\ pc[id] = "loaded"
    /\ IF oracle[id].failed
       THEN /\ pc' = [pc EXCEPT ![id] = "raised"]
            /\ UNCHANGED model
       ELSE /\ model' = [model EXCEPT ![ModelOf(id)] =
                            Some(Optimize(oracle[id], h_init_of(candidates[id]),
                                          candidates[id].prior_variance))]
            /\ pc' = [pc EXCEPT ![id] = "optimized"]
    /\ UNCHANGED <<init_args, init_result, experiment, candidates, oracle, exp_local,
                   files, stats_table, collated, outcome>>

(* The results dictionary, the statistics and pickle.dump to results_filename. *)
FitWrite(id) ==
    /\ pc[id] = "optimized"
    /\ files' = [files EXCEPT ![ResultsFile(id)] =
                    Some(fit_results_of(fit_remixt_variational(model[ModelOf(id)][1]),
                                        exp_local[id], candidates[id]))]
    /\ pc' = [pc EXCEPT ![id] = "done"]
    /\ UNCHANGED <<init_args, init_result, experiment, candidates, oracle, exp_local,
                   model, stats_table, collated, outcome>>

(* fit from its first line to its last, run without interruption. *)
Fit(id) ==
    /\ pc[id] = "start"
    /\ exp_local' = [exp_local EXCEPT ![id] = experiment]
    /\ IF oracle[id].failed
       THEN /\ pc' = [pc EXCEPT ![id] = "raised"]
            /\ UNCHANGED <<model, files>>
       ELSE LET m == Optimize(oracle[id], h_init_of(candidates[id]),
                              candidates[id].prior_variance)
            IN  /\ model' = [model EXCEPT ![ModelOf(id)] = Some(m)]
                /\ files' = [files EXCEPT ![ResultsFile(id)] =
                                Some(fit_results_of(fit_remixt_variational(m),
                                                    experiment, candidates[id]))]
                /\ pc' = [pc EXCEPT ![id] = "done"]
    /\ UNCHANGED <<init_args, init_result, experiment, candidates, oracle,
                   stats_table, collated, outcome>>

IdleInit == init_args = Unused /\ init_result = Pending

(* What the optimizer may reach on one candidate's inputs. *)
Copies == 0 .. MaxCN
SegLengths == {<<100, 200>>, <<200, 100>>}
Segments == 1 .. 2

TumourTables == [Segments -> [TumourClones -> [Alleles -> Copies]]]

TheCandidate ==
    [mode_idx |-> 0, h_normal |-> 1, h_tumour |-> 2, mix_frac |-> 4, prior_variance |-> 1]

(* One fit of one candidate, over every copy-number table the optimizer can return. *)
InitFit ==
    /\ IdleInit
    /\ IdleCollate
    /\ \E l \in SegLengths : experiment = Experiment(l)
    /\ candidates = [id \in {0} |-> TheCandidate]
    /\ \E tum \in TumourTables, c0 \in {1, MaxCN} :
          oracle = [id \in {0} |->
                      [failed |-> FALSE, elbo |-> 1, converged |-> TRUE,
                       cn |-> CnTable(tum, c0)]]
    /\ pc = [id \in {0} |-> "start"]
    /\ exp_local = [id \in {0} |-> None]
    /\ model = [id \in {0} |-> None]
    /\ files = [id \in {0} |-> None]

NextFit == \E id \in DOMAIN pc : Fit(id)

SpecFit == InitFit /\ [][NextFit]_vars

(* The statistics record the fit of candidate 0 pickled. *)
Stats0 == files[0][1].stats
Cn0 == oracle[0].cn
L0 == experiment.l
TotalLength == SumTo(L0, Len(L0))

(* Segment n's total (major + minor) copy number in tumour clone k. *)
TotalCN(n, k) == Cn0[n][k][0] + Cn0[n][k][1]

(* The tumour clones disagree on allele a of segment n. *)
Disagree(n, a) == \E j, k \in TumourClones : Cn0[n][j][a] # Cn0[n][k][a]

(* C7: ploidy * (K-1) * sum(l) is the sum over segments, tumour clones and  *)
(* alleles of cn * l, clone 0 left out; and for lengths 100 and 200 with    *)
(* total copy number 2 and 4 in every tumour clone the ploidy is 10/3.      *)
C7_Ploidy ==
    pc[0] = "done" =>
        LET weighted == [n \in DOMAIN L0 |->
                            L0[n] * SumTo([k \in TumourClones |-> TotalCN(n, k)],
                                          NumClones - 1)]
        IN  /\ RatEq(RatMul(Stats0.ploidy, RatOf((NumClones - 1) * TotalLength)),
                     RatOf(SumTo(weighted, Len(L0))))
            /\ (/\ L0 = <<100, 200>>
                /\ \A k \in TumourClones : TotalCN(1, k) = 2 /\ TotalCN(2, k) = 4)
               => RatEq(Stats0.ploidy, <<10, 3>>)

(* The fit of the example finished: lengths 100 and 200, total copy number 2 *)
(* and 4 in every tumour clone, and a clone 0 that holds other copy numbers. *)
C7_Witness ==
    /\ pc[0] = "done"
    /\ L0 = <<100, 200>>
    /\ \A k \in TumourClones : TotalCN(1, k) = 2 /\ TotalCN(2, k) = 4
    /\ Cn0[1][0][0] + Cn0[1][0][1] # 2

(* C8: proportion_divergent * 2 * sum(l) is the sum over segments and       *)
(* alleles of l where the tumour clones disagree; it lies in [0, 1], is 0    *)
(* exactly when the tumour clones agree everywhere and 1 exactly when they   *)
(* disagree on both alleles of every segment.                                *)
C8_ProportionDivergent ==
    pc[0] = "done" =>
        LET pd == Stats0.proportion_divergent
            weighted == [n \in DOMAIN L0 |->
                            L0[n] * Cardinality({a \in Alleles : Disagree(n, a)})]
        IN  /\ RatEq(RatMul(pd, RatOf(2 * TotalLength)), RatOf(SumTo(weighted, Len(L0))))
            /\ RatLe(RatOf(0), pd) /\ RatLe(pd, RatOf(1))
            /\ RatEq(pd, RatOf(0)) <=> \A n \in DOMAIN L0, a \in Alleles : ~Disagree(n, a)
            /\ RatEq(pd, RatOf(1)) <=> \A n \in DOMAIN L0, a \in Alleles : Disagree(n, a)

(* A finished fit whose tumour clones agree with each other on one segment   *)
(* and disagree on the other, while clone 0 differs from both of them.       *)
C8_Witness ==
    /\ pc[0] = "done"
    /\ \A a \in Alleles : ~Disagree(1, a) /\ Cn0[1][0][a] # Cn0[1][1][a]
    /\ \E a \in Alleles : Disagree(2, a)
    /\ RatLt(RatOf(0), Stats0.proportion_divergent)
    /\ RatLt(Stats0.proportion_divergent, RatOf(1))

----------------------------------------------------------------------------
(* collate, store_fit_results and store_optimal_solution.                  *)

(* A store maps keys to values; the key '/solutions/solution_<id>/cn' is   *)
(* <<"solutions", id, "cn">> and the key '/cn' is <<"cn">> (the store      *)
(* treats a key with and without its leading slash as the same key).       *)
Put(store, key, value) ==
    [k \in DOMAIN store \cup {key} |-> IF k = key THEN value ELSE store[k]]

(* config: max_prop_diverge *)
max_prop_diverge == <<1, 2>>

(* pd.DataFrame(rows): the columns are those of the rows, and there are none *)
(* when there is no row.                                                     *)
DataFrame(rows) ==
    [columns |-> IF Len(rows) = 0 THEN {} ELSE DOMAIN rows[1], rows |-> rows]

(* Every enumeration order of the finite set S. *)
Orders(S) ==
    {order \in [1 .. Cardinality(S) -> S] :
        \A i, j \in 1 .. Cardinality(S) : order[i] = order[j] => i = j}

(* The names bound in the body of store_fit_results: its parameters and the *)
(* locals it assigns.                                                       *)
StoreFitResultsNames ==
    {"store", "experiment", "fit_results", "key_prefix",
     "h", "cn", "brk_cn", "phi", "cn_table", "brk_cn_table"}

(* h / h.sum() *)
Mix(h) == [k \in DOMAIN h |-> RatDiv(h[k], RatSumTo(h, Len(h)))]

(* store_fit_results: the entries written under key_prefix, up to the first *)
(* name that is not bound.                                                  *)
store_fit_results(store, exp, fit_results, key_prefix) ==
    LET h == fit_results.h
        cn_table == [segments |-> Len(exp.x), cn |-> fit_results.cn, h |-> h,
                     phi |-> fit_results.phi]
        brk_cn_table == [brk_cn |-> fit_results.brk_cn]
        s1 == Put(store, Append(key_prefix, "h"), h)
        s2 == Put(s1, Append(key_prefix, "a"), fit_results.a)
        s3 == Put(s2, Append(key_prefix, "cn"), cn_table)
        s4 == Put(s3, Append(key_prefix, "mix"), Mix(h))
        s5 == Put(s4, Append(key_prefix, "brk_cn"), brk_cn_table)
    IN  IF "a" \notin StoreFitResultsNames
        THEN [raised |-> "NameError", store |-> s1]
        ELSE [raised |-> "", store |-> s5]

(* stats[stats['proportion_divergent'] <= max_prop_diverge] *)
FilterInclusive(rows) ==
    SelectSeq(rows, LAMBDA row : RatLe(row.proportion_divergent, max_prop_diverge))

(* stats[stats['proportion_divergent'] < max_prop_diverge] *)
Filter(rows) ==
    SelectSeq(rows, LAMBDA row : RatLt(row.proportion_divergent, max_prop_diverge))

(* stats.sort_values('elbo', ascending=False): the sort is not a stable one, *)
(* so rows of equal ELBO come out in any order.                              *)
sort_values(rows) ==
    {[i \in 1 .. Len(rows) |-> rows[order[i]]] : order \in
        {o \in Orders(1 .. Len(rows)) :
            \A i, j \in 1 .. Len(rows) : i < j => rows[o[i]].elbo >= rows[o[j]].elbo}}

(* store[key] = store[key_prefix + key] for the three published entries, up *)
(* to the first key the store does not hold.                                *)
Publish(store, key_prefix) ==
    LET Copy(r, name) ==
            IF r.raised # "" THEN r
            ELSE IF Append(key_prefix, name) \notin DOMAIN r.store
                 THEN [r EXCEPT !.raised = "KeyError"]
                 ELSE [r EXCEPT !.store =
                          Put(r.store, <<name>>, r.store[Append(key_prefix, name)])]
    IN  Copy(Copy(Copy([raised |-> "", store |-> store], "cn"), "mix"), "brk_cn")

(* store_optimal_solution: every way the call can end. *)
store_optimal_solution(stats, store) ==
    IF "proportion_divergent" \notin stats.columns
    THEN {[raised |-> "KeyError", store |-> store]}
    ELSE IF Len(Filter(stats.rows)) = 0
    THEN {[raised |-> "IndexError", store |-> store]}
    ELSE {Publish(store, <<"solutions", sorted[1].init_id>>) :
             sorted \in sort_values(Filter(stats.rows))}

(* stats = results['stats']; stats['init_id'] = init_id *)
StatsRow(fit_results, init_id) == fit_results.stats @@ [init_id |-> init_id]

RECURSIVE StoreLoop(_, _, _, _, _)
(* The loop of collate over store_fit_results, after its first k iterations. *)
StoreLoop(store, order, fs, exp, k) ==
    IF k = 0 THEN [raised |-> "", store |-> store]
    ELSE LET prev == StoreLoop(store, order, fs, exp, k - 1)
         IN  IF prev.raised # "" THEN prev
             ELSE store_fit_results(prev.store, exp, fs[order[k]][1],
                                    <<"solutions", order[k]>>)

(* The entries init stored in the init results file. *)
InitResults == [key \in {<<"read_depth">>, <<"minor_modes">>} |-> key[1]]

(* collate over the results files fs, enumerated in the given order: every *)
(* way the call can end, with the statistics table it built and the store  *)
(* it left behind.                                                         *)
collate(order, fs, exp) ==
    IF \E i \in DOMAIN order : fs[order[i]] = None
    THEN {[raised |-> "IOError", stats |-> NoFrame, store |-> EmptyStore]}
    ELSE LET stats == DataFrame([i \in DOMAIN order |->
                                    StatsRow(fs[order[i]][1], order[i])])
             s0 == Put(EmptyStore, <<"stats">>, stats)
             s1 == Put(Put(s0, <<"read_depth">>, InitResults[<<"read_depth">>]),
                       <<"minor_modes">>, InitResults[<<"minor_modes">>])
             loop == StoreLoop(s1, order, fs, exp, Len(order))
         IN  IF loop.raised # ""
             THEN {[raised |-> loop.raised, stats |-> stats, store |-> loop.store]}
             ELSE {[raised |-> r.raised, stats |-> stats, store |-> r.store] :
                      r \in store_optimal_solution(stats, loop.store)}

Ended(raised) == IF raised = "" THEN "returned" ELSE raised

(* collate, run by the single selector once every fit has ended; the order *)
(* in which the mapping of results files is enumerated is any order.       *)
Collate ==
    /\ outcome = "pending"
    /\ \A id \in DOMAIN pc : pc[id] \in {"done", "raised"}
    /\ \E order \in Orders(DOMAIN files) :
          \E r \in collate(order, files, experiment) :
              /\ stats_table' = r.stats
              /\ collated' = r.store
              /\ outcome' = Ended(r.raised)
    /\ UNCHANGED <<init_args, init_result, experiment, candidates, oracle, pc,
                   exp_local, model, files>>

(* The copy-number tables the optimizer returns in the pipeline: the tumour *)
(* clones agree everywhere, or disagree on both alleles of every segment.   *)
AgreeTable == CnTable([n \in Segments |-> [k \in TumourClones |-> [a \in Alleles |-> 1]]], 1)
DivergeTable == CnTable([n \in Segments |-> [k \in TumourClones |-> [a \in Alleles |-> k]]], 1)

OptimizeFailure == [failed |-> TRUE, elbo |-> 0, converged |-> FALSE, cn |-> <<>>]
OptimizeResults ==
    {OptimizeFailure} \cup
    {[failed |-> FALSE, elbo |-> e, converged |-> (e > 1), cn |-> t] :
        e \in 1 .. MaxElbo, t \in {AgreeTable, DivergeTable}}

(* The arguments of the init call that produced n candidates. *)
PipelineArgs(n) ==
    [init_h_mono |-> <<HMono(1)>>, estimated_ploidy |-> <<2>>,
     min_ploidy |-> None, max_ploidy |-> None,
     tumour_mix_fractions |-> [j \in 1 .. n |-> j], prior_variances |-> <<1>>]

(* init has returned its candidates; no fit has started. *)
Init ==
    /\ \E n \in 1 .. MaxCand : init_args = PipelineArgs(n)
    /\ init_result = init(init_args)
    /\ candidates = init_result.value
    /\ \E l \in SegLengths : experiment = Experiment(l)
    /\ oracle \in [DOMAIN candidates -> OptimizeResults]
    /\ pc = [id \in DOMAIN candidates |-> "start"]
    /\ exp_local = [id \in DOMAIN candidates |-> None]
    /\ model = [id \in DOMAIN candidates |-> None]
    /\ files = [id \in DOMAIN candidates |-> None]
    /\ stats_table = NoFrame
    /\ collated = EmptyStore
    /\ outcome = "pending"

Next ==
    \/ \E id \in DOMAIN pc : FitLoad(id)
    \/ \E id \in DOMAIN pc : FitOptimize(id)
    \/ \E id \in DOMAIN pc : FitWrite(id)
    \/ Collate

Spec == Init /\ [][Next]_vars

(* The Fit Result the fit of candidate id produces when it runs alone. *)
FitAlone(id) ==
    fit_results_of(
        fit_remixt_variational(
            Optimize(oracle[id], h_init_of(candidates[id]), candidates[id].prior_variance)),
        experiment, candidates[id])

(* The row of the statistics table is one that may be selected. *)
Eligible(row) == RatLt(row.proportion_divergent, max_prop_diverge)

(* C5: a candidate whose optimize fails has that failure recorded in its own *)
(* Fit Result instead of the fit ending in the exception, and collate is not *)
(* aborted by a failed or missing candidate result.                          *)
C5_FitFailureIsolated ==
    /\ \A id \in DOMAIN pc :
          (oracle[id].failed /\ pc[id] \notin {"start", "loaded"}) =>
              /\ pc[id] = "done"
              /\ files[id] # None
              /\ files[id][1].stats.error_message # ""
    /\ outcome # "IOError"

(* C9: with a Fit Result for every candidate and an eligible row among them, *)
(* collate returns and the collated store holds the statistics table with    *)
(* one row per candidate, the entries h, a, cn, mix and brk_cn of every      *)
(* candidate, and top-level cn, mix and brk_cn equal to those of one         *)
(* eligible candidate.                                                       *)
C9_CollatedStore ==
    (/\ outcome # "pending"
     /\ \A id \in DOMAIN files : files[id] # None
     /\ \E id \in DOMAIN files : Eligible(files[id][1].stats)) =>
        /\ outcome = "returned"
        /\ <<"stats">> \in DOMAIN collated
        /\ {row.init_id : row \in {stats_table.rows[i] : i \in DOMAIN stats_table.rows}}
              = DOMAIN files
        /\ Len(stats_table.rows) = Cardinality(DOMAIN files)
        /\ \A id \in DOMAIN files, name \in {"h", "a", "cn", "mix", "brk_cn"} :
              <<"solutions", id, name>> \in DOMAIN collated
        /\ \E id \in DOMAIN files :
              /\ Eligible(files[id][1].stats)
              /\ \A name \in {"cn", "mix", "brk_cn"} :
                    /\ <<name>> \in DOMAIN collated
                    /\ collated[<<name>>] = collated[<<"solutions", id, name>>]

(* C10: under every interleaving of the fit runs, the Experiment is never   *)
(* changed, a step that is not a run's own changes neither that run's copy  *)
(* of the Experiment nor its model nor its results file, the results file   *)
(* of a finished run holds the Fit Result the run produces alone and no     *)
(* other run has a results file, and the rows collate gathers are those Fit *)
(* Results' statistics whatever the order of the runs.                      *)
C10_FitRunsIndependent ==
    /\ [](\A id \in DOMAIN pc :
            /\ pc[id] = "done" => files[id] = Some(FitAlone(id))
            /\ pc[id] # "done" => files[id] = None)
    /\ []((outcome \notin {"pending", "IOError"}) =>
            {stats_table.rows[i] : i \in DOMAIN stats_table.rows}
              = {StatsRow(FitAlone(id), id) : id \in DOMAIN pc})
    /\ [][/\ experiment' = experiment
          /\ \A id \in DOMAIN pc :
                pc'[id] = pc[id] =>
                    /\ files'[id] = files[id]
                    /\ model'[id] = model[id]
                    /\ exp_local'[id] = exp_local[id]]_vars

(* Two runs in flight at once: one has written its results file while the   *)
(* other, whose optimizer returned another table, still holds its model.    *)
C10_Witness ==
    /\ {0, 1} \subseteq DOMAIN pc
    /\ pc[0] = "optimized" /\ pc[1] = "done"
    /\ oracle[0].cn # oracle[1].cn
    /\ files[1] = Some(FitAlone(1))

----------------------------------------------------------------------------
(* store_optimal_solution called on a statistics table and a store that     *)
(* holds every candidate's solution.                                        *)

(* Proportions below, at and above max_prop_diverge. *)
Proportions == {<<0, 1>>, <<1, 2>>, <<1, 1>>}

(* One row of the statistics table, as fit and collate build it. *)
Row(init_id, elbo, prop, converged) ==
    [elbo |-> elbo, elbo_diff |-> 0, converged |-> converged,
     num_iter |-> IF converged THEN 1 ELSE 2, error_message |-> "",
     num_clones |-> NumClones, num_segments |-> 2, ploidy |-> <<2, 1>>,
     proportion_divergent |-> prop, mode_idx |-> 0, prior_variance |-> 1,
     init_id |-> init_id]

(* A store holding the five entries of every candidate's solution. *)
SolutionStore(ids) ==
    [key \in {<<"solutions", id, name>> :
                 id \in ids, name \in {"h", "a", "cn", "mix", "brk_cn"}}
        |-> <<key[3], key[2]>>]

InitSelect ==
    /\ IdleInit
    /\ IdleFit
    /\ \E n \in 0 .. MaxCand :
          /\ \E order \in Orders(0 .. n - 1) :
                \E cols \in [0 .. n - 1 -> (1 .. MaxElbo) \X Proportions \X BOOLEAN] :
                    LET rows == [i \in 1 .. n |->
                                    Row(order[i], cols[order[i]][1], cols[order[i]][2],
                                        cols[order[i]][3])]
                    IN  stats_table \in
                            {DataFrame(rows),
                             [columns |-> DOMAIN Row(0, 1, <<0, 1>>, TRUE), rows |-> rows]}
          /\ collated = SolutionStore(0 .. n - 1)
    /\ outcome = "pending"

StoreOptimalSolution ==
    /\ outcome = "pending"
    /\ \E r \in store_optimal_solution(stats_table, collated) :
          /\ collated' = r.store
          /\ outcome' = Ended(r.raised)
    /\ UNCHANGED <<init_args, init_result, experiment, candidates, oracle, pc,
                   exp_local, model, files, stats_table>>

NextSelect == StoreOptimalSolution

SpecSelect == InitSelect /\ [][NextSelect]_vars

Rows == {stats_table.rows[i] : i \in DOMAIN stats_table.rows}
EligibleRows == {row \in Rows : Eligible(row)}
Published == {<<"cn">>, <<"mix">>, <<"brk_cn">>} \cap DOMAIN collated

(* The top-level entries of the store are those of candidate id. *)
Selected(id) ==
    \A name \in {"cn", "mix", "brk_cn"} :
        /\ <<name>> \in DOMAIN collated
        /\ collated[<<name>>] = collated[<<"solutions", id, name>>]

(* C1: when no row has proportion_divergent < max_prop_diverge, the empty   *)
(* table included, store_optimal_solution ends in NoSolution, not in an     *)
(* index error, and publishes no top-level cn, mix or brk_cn.               *)
C1_NoSolution ==
    (outcome # "pending" /\ EligibleRows = {}) =>
        outcome = "NoSolution" /\ Published = {}

(* C2: when some row has proportion_divergent < max_prop_diverge, the call  *)
(* returns and the candidate it publishes is a row strictly below           *)
(* max_prop_diverge whose ELBO is at least that of every other such row,    *)
(* whatever the rows' convergence flags and iteration counts.               *)
C2_SelectsBestEligible ==
    (outcome # "pending" /\ EligibleRows # {}) =>
        /\ outcome = "returned"
        /\ \E row \in EligibleRows :
              /\ Selected(row.init_id)
              /\ \A other \in EligibleRows : row.elbo >= other.elbo

(* The published candidate did not converge and has a lower ELBO than a     *)
(* converged row whose proportion_divergent equals max_prop_diverge.        *)
C2_Witness ==
    /\ outcome = "returned"
    /\ \E row \in EligibleRows, other \in Rows :
          /\ Selected(row.init_id)
          /\ ~row.converged
          /\ other.converged
          /\ RatEq(other.proportion_divergent, max_prop_diverge)
          /\ other.elbo > row.elbo

(* C3: when eligible rows share the maximum ELBO, the published candidate   *)
(* is the one with the lowest candidate id among them, in whatever order    *)
(* the rows were enumerated into the table.                                 *)
C3_TieBreakLowestId ==
    outcome = "returned" =>
        LET best == {row \in EligibleRows :
                        \A other \in EligibleRows : row.elbo >= other.elbo}
        IN  \E row \in best :
              /\ Selected(row.init_id)
              /\ \A other \in best : row.init_id <= other.init_id

====
